---- MODULE Spec2Model ----
(***************************************************************************)
(* Model of the paginated scraper: main.py (orchestrator and detail loop)  *)
(* and helpers.py (pagination resolver, link collector, email decoder).    *)
(* Strings that the code inspects character by character (cfemail tokens)  *)
(* are sequences of one-character strings; decoded emails are sequences of *)
(* code points.  Network responses are inputs drawn at the fetch.          *)
(***************************************************************************)
EXTENDS Integers, Sequences, FiniteSets, TLC

VARIABLES pc, index, subdomain, totalPagination, pageNumber, hrefs, full_list,
          mainHrefs, idx, response, name, emails, linkFile, contactFile,
          trace, log, rowSrc, raised, cfemail, result

vars == <<pc, index, subdomain, totalPagination, pageNumber, hrefs, full_list,
          mainHrefs, idx, response, name, emails, linkFile, contactFile,
          trace, log, rowSrc, raised, cfemail, result>>

-----------------------------------------------------------------------------
(* Bounds of the model *)

MaxPages == 3
MaxLinks == 2
MaxTokenLen == 6

(* Input alphabets *)

TokenChars == {"6", "e", "A", "z", "-"}
GoodToken == <<"6", "e", "0", "f">>
OtherToken == <<"0", "0", "6", "e">>
BadToken == <<"6", "e", "z", "z">>
OddToken == <<"6", "e", "0">>
BaseUrl == "https:/exampleURL.com"
Catalog == <<[name |-> "x", path |-> "/dir?c=1"]>>

-----------------------------------------------------------------------------
(* Python primitives used by decode_cfemail *)

HexLower == <<"0", "1", "2", "3", "4", "5", "6", "7", "8", "9",
              "a", "b", "c", "d", "e", "f">>
HexUpper == <<"0", "1", "2", "3", "4", "5", "6", "7", "8", "9",
              "A", "B", "C", "D", "E", "F">>

IsHexDigit(c) == \E i \in 1..16 : HexLower[i] = c \/ HexUpper[i] = c

HexVal(c) == (CHOOSE i \in 1..16 : HexLower[i] = c \/ HexUpper[i] = c) - 1

RECURSIVE Xor(_, _)
Xor(a, b) ==
    IF a = 0 THEN b
    ELSE IF b = 0 THEN a
    ELSE (((a % 2) + (b % 2)) % 2) + 2 * Xor(a \div 2, b \div 2)

\* a ^ b on Python's unbounded two's-complement integers
PyXor(a, b) ==
    IF a >= 0 /\ b >= 0 THEN Xor(a, b)
    ELSE IF a < 0 /\ b < 0 THEN Xor(-a - 1, -b - 1)
    ELSE IF a < 0 THEN -Xor(-a - 1, b) - 1
    ELSE -Xor(a, -b - 1) - 1

\* s[lo:hi] with Python's clamping (0-based lo, exclusive hi)
Slice(s, lo, hi) ==
    LET h == IF hi < Len(s) THEN hi ELSE Len(s)
    IN  IF lo >= h THEN <<>> ELSE SubSeq(s, lo + 1, h)

RECURSIVE Strip(_)
Strip(s) ==
    IF s = <<>> THEN s
    ELSE IF Head(s) = " " THEN Strip(Tail(s))
    ELSE IF s[Len(s)] = " " THEN Strip(SubSeq(s, 1, Len(s) - 1))
    ELSE s

RECURSIVE DigitsValue(_)
DigitsValue(d) ==
    IF d = <<>> THEN 0
    ELSE 16 * DigitsValue(SubSeq(d, 1, Len(d) - 1)) + HexVal(d[Len(d)])

\* int(s, 16) for a slice s of at most two characters: surrounding blanks
\* are stripped and one sign is accepted; a "0x" prefix or an underscore
\* needs more digits than two characters can hold, so both are rejected.
PyInt16(s) ==
    LET t == Strip(s)
        signed == t # <<>> /\ Head(t) \in {"+", "-"}
        d == IF signed THEN Tail(t) ELSE t
        good == d # <<>> /\ \A i \in 1..Len(d) : IsHexDigit(d[i])
    IN  IF ~good THEN [ok |-> FALSE, val |-> 0]
        ELSE [ok |-> TRUE,
              val |-> IF signed /\ Head(t) = "-" THEN -DigitsValue(d)
                      ELSE DigitsValue(d)]

\* chr(n) raises ValueError outside range(0x110000)
ChrOk(n) == n >= 0 /\ n < 1114112

ValueError == [ok |-> FALSE, err |-> "ValueError", val |-> <<>>]
KeyError == [ok |-> FALSE, err |-> "KeyError", val |-> <<>>]
Returned(v) == [ok |-> TRUE, err |-> "", val |-> v]

\* 0-based offsets 2, 4, ... of range(2, len(cfemail), 2)
PairOffsets(tok) == {i \in 2..Len(tok) : (i % 2) = 0 /\ i < Len(tok)}

\* faulty variant: the key is read but never applied
DecodeXorDropped(tok) ==
    LET r == PyInt16(Slice(tok, 0, 2))
        offs == PairOffsets(tok)
        part(i) == PyInt16(Slice(tok, i, i + 2))
    IN  IF ~r.ok THEN ValueError
        ELSE IF \E i \in offs : ~part(i).ok THEN ValueError
        ELSE Returned([k \in 1..Cardinality(offs) |-> part(2 * k).val])

DecodeCfemail(tok) ==
    LET r == PyInt16(Slice(tok, 0, 2))
        offs == PairOffsets(tok)
        part(i) == PyInt16(Slice(tok, i, i + 2))
    IN  IF ~r.ok THEN ValueError
        ELSE IF \E i \in offs :
                   ~part(i).ok \/ ~ChrOk(PyXor(part(i).val, r.val))
             THEN ValueError
        ELSE Returned([k \in 1..Cardinality(offs) |->
                          PyXor(part(2 * k).val, r.val)])

-----------------------------------------------------------------------------
(* Documents returned by the site and the extractors of helpers.py *)

RECURSIVE SeqsUpTo(_, _)
SeqsUpTo(S, n) ==
    IF n = 0 THEN {<<>>}
    ELSE LET shorter == SeqsUpTo(S, n - 1)
         IN  shorter \cup {Append(q, x) : q \in {r \in shorter : Len(r) = n - 1}, x \in S}

\* an <a> of a listing page: its href attribute, possibly absent or empty
A(h) == [has |-> TRUE, href |-> h]
NoHref == [has |-> FALSE, href |-> ""]
\* a listing page: its anchors in document order
ListingDocs == {<<>>,
                <<A("/a")>>,
                <<A("/b"), A("/a")>>,
                <<NoHref, A("/b"), A("")>>}

\* the last pagination <a> of the index page, as get_totalPagination reads it
IndexDocs == {[anchor |-> "none", page |-> 0], [anchor |-> "nohref", page |-> 0],
              [anchor |-> "nomatch", page |-> 0]}
             \cup {[anchor |-> "page", page |-> n] : n \in 0..MaxPages}

\* an <a class="__cf_email__"> of a detail page, with or without data-cfemail
Cf(t) == [has |-> TRUE, cfemail |-> t]
NoCf == [has |-> FALSE, cfemail |-> <<>>]
\* a detail page: the title span (at most one) and the email elements
Doc(n, es) == [nameTag |-> n, elems |-> es]
DetailDocs == {Doc(<<"John Roe">>, <<>>),
               Doc(<<>>, <<Cf(GoodToken)>>),
               Doc(<<"Jane Doe">>, <<Cf(GoodToken), Cf(OtherToken)>>),
               Doc(<<"John Roe">>, <<Cf(OtherToken), NoCf, Cf(GoodToken)>>),
               Doc(<<"John Roe">>, <<Cf(OddToken)>>),
               Doc(<<"Jane Doe">>, <<Cf(BadToken)>>),
               Doc(<<"Jane Doe">>, <<Cf(GoodToken), Cf(BadToken), Cf(OtherToken)>>)}
NoDoc == Doc(<<>>, <<>>)

RECURSIVE HrefsOf(_)
HrefsOf(doc) ==
    IF doc = <<>> THEN <<>>
    ELSE IF Head(doc).has /\ Head(doc).href # ""
         THEN <<Head(doc).href>> \o HrefsOf(Tail(doc))
         ELSE HrefsOf(Tail(doc))

GetName(doc) == IF doc.nameTag = <<>> THEN "" ELSE doc.nameTag[1]

RECURSIVE GetEmailFrom(_, _)
GetEmailFrom(elems, acc) ==
    IF elems = <<>> THEN Returned(acc)
    ELSE IF ~Head(elems).has THEN GetEmailFrom(Tail(elems), acc)
    ELSE LET d == DecodeCfemail(Head(elems).cfemail)
         IN  IF ~d.ok THEN d
             ELSE GetEmailFrom(Tail(elems), Append(acc, d.val))

GetEmail(doc) == GetEmailFrom(doc.elems, <<>>)

\* the value of get_totalPagination after a successful fetch
TotalPaginationOf(doc) ==
    CASE doc.anchor = "none" -> Returned(0)
      [] doc.anchor = "nohref" -> KeyError
      [] doc.anchor = "nomatch" -> Returned(0)
      [] OTHER -> Returned(doc.page)

-----------------------------------------------------------------------------
(* Files, trace and log *)

NoFile == [exists |-> FALSE, header |-> <<>>, rows |-> <<>>]
StaleContacts == [exists |-> TRUE, header |-> <<"name", "email">>,
                  rows |-> <<[name |-> "Old", email |-> <<111>>]>>]
StaleLinks == [exists |-> TRUE, header |-> <<"href">>, rows |-> <<"/old">>]

\* DataFrame(columns=cols).to_csv(f, index=False)
CreateCsv(cols) == [exists |-> TRUE, header |-> cols, rows |-> <<>>]
\* DataFrame(rows).to_csv(f, mode='a', header=False, index=False)
AppendCsv(f, rows) == [f EXCEPT !.exists = TRUE, !.rows = @ \o rows]

\* trace: the sleeps and requests of the run, in order; a request records the
\* document the server answered with (none when the request failed)
Sleep(d) == [op |-> "sleep", kind |-> "", n |-> d, url |-> "", ok |-> TRUE, doc |-> <<>>]
Fetch(kind, n, url, ok, doc) ==
    [op |-> "fetch", kind |-> kind, n |-> n, url |-> url, ok |-> ok, doc |-> doc]

Info(m) == [level |-> "INFO", msg |-> m]
Error(m) == [level |-> "ERROR", msg |-> m]

Url == BaseUrl \o subdomain.path
SubUrl(n) == Url \o "&page=" \o ToString(n)

-----------------------------------------------------------------------------
(* main() up to the call of get_fullList *)

IndexInputs == -1..Len(Catalog)
NoSubdomain == [name |-> "", path |-> ""]

Init ==
    /\ pc = "main"
    /\ index \in IndexInputs
    /\ subdomain = NoSubdomain
    /\ totalPagination = 0
    /\ pageNumber = 0
    /\ hrefs = <<>>
    /\ full_list = <<>>
    /\ mainHrefs = <<>>
    /\ idx = 0
    /\ response = NoDoc
    /\ name = ""
    /\ emails = <<>>
    /\ linkFile \in {NoFile, StaleLinks}
    /\ contactFile \in {NoFile, StaleContacts}
    /\ trace = <<>>
    /\ log = <<>>
    /\ rowSrc = <<>>
    /\ raised = ""
    /\ cfemail = <<>>
    /\ result = Returned(<<>>)

MainArgs ==
    /\ pc = "main"
    /\ IF index < 0 \/ index >= Len(Catalog)
       THEN /\ log' = Append(log, Error("Invalid index"))
            /\ pc' = "done"
            /\ UNCHANGED subdomain
       ELSE /\ subdomain' = Catalog[index + 1]
            /\ log' = Append(log, Info("Starting scraper"))
            /\ pc' = "resolve"
    /\ UNCHANGED <<index, totalPagination, pageNumber, hrefs, full_list, mainHrefs,
                   idx, response, name, emails, linkFile, contactFile, trace,
                   rowSrc, raised, cfemail, result>>

\* what main logs about the resolved count
MainPagesLog(n) ==
    IF n = 0 THEN <<Error("No pagination detected or failed to fetch total pages."),
                    Info("Total pages")>>
    ELSE <<Info("Total pages")>>

GetTotalPagination ==
    /\ pc = "resolve"
    /\ \E ok \in BOOLEAN, doc \in IndexDocs :
          /\ trace' = Append(trace, Fetch("index", 0, Url, ok, <<>>))
          /\ IF ~ok
             THEN /\ totalPagination' = 0
                  /\ log' = log \o <<Error("Error fetching totalPagination")>> \o MainPagesLog(0)
                  /\ pc' = "fl_create"
                  /\ UNCHANGED raised
             ELSE LET r == TotalPaginationOf(doc)
                  IN  IF ~r.ok
                      THEN /\ raised' = r.err
                           /\ pc' = "crashed"
                           /\ UNCHANGED <<totalPagination, log>>
                      ELSE /\ totalPagination' = r.val
                           /\ log' = log
                                 \o (IF doc.anchor = "none"
                                     THEN <<Error("Error parsing totalPagination")>>
                                     ELSE <<>>)
                                 \o MainPagesLog(r.val)
                           /\ pc' = "fl_create"
                           /\ UNCHANGED raised
    /\ UNCHANGED <<index, subdomain, pageNumber, hrefs, full_list, mainHrefs, idx,
                   response, name, emails, linkFile, contactFile, rowSrc,
                   cfemail, result>>

-----------------------------------------------------------------------------
(* get_fullList and get_list *)

\* the list get_list returns for a fetch outcome
GetList(ok, doc) == IF ok THEN HrefsOf(doc) ELSE <<>>

GetListLog(ok) == IF ok THEN <<>> ELSE <<Error("Error fetching page")>>

FlCreate ==
    /\ pc = "fl_create"
    /\ full_list' = <<>>
    /\ linkFile' = CreateCsv(<<"href">>)
    /\ pageNumber' = 1
    /\ pc' = IF totalPagination = 0 THEN "fl_single" ELSE "fl_sleep"
    /\ UNCHANGED <<index, subdomain, totalPagination, hrefs, mainHrefs, idx, response,
                   name, emails, contactFile, trace, log, rowSrc, raised,
                   cfemail, result>>

FlSingleFetch ==
    /\ pc = "fl_single"
    /\ \E ok \in BOOLEAN, doc \in ListingDocs :
          /\ Len(full_list) + Len(GetList(ok, doc)) <= MaxLinks
          /\ hrefs' = GetList(ok, doc)
          /\ trace' = Append(trace, Fetch("page", 1, SubUrl(1), ok, IF ok THEN doc ELSE <<>>))
          /\ log' = log \o GetListLog(ok)
    /\ pc' = "fl_single_extend"
    /\ UNCHANGED <<index, subdomain, totalPagination, pageNumber, full_list, mainHrefs,
                   idx, response, name, emails, linkFile, contactFile, rowSrc,
                   raised, cfemail, result>>

FlSingleExtend ==
    /\ pc = "fl_single_extend"
    /\ full_list' = full_list \o hrefs
    /\ pc' = "fl_single_append"
    /\ UNCHANGED <<index, subdomain, totalPagination, pageNumber, hrefs, mainHrefs, idx,
                   response, name, emails, linkFile, contactFile, trace, log, rowSrc,
                   raised, cfemail, result>>

FlSingleAppend ==
    /\ pc = "fl_single_append"
    /\ linkFile' = AppendCsv(linkFile, hrefs)
    /\ log' = Append(log, Info("No pagination detected. Fetched hrefs from page 1."))
    /\ pc' = "fl_return"
    /\ UNCHANGED <<index, subdomain, totalPagination, pageNumber, hrefs, full_list,
                   mainHrefs, idx, response, name, emails, contactFile, trace, rowSrc,
                   raised, cfemail, result>>

\* faulty variant: the delay before the page fetch is left out
FlSleepSkipped ==
    /\ pc = "fl_sleep"
    /\ pc' = "fl_fetch"
    /\ UNCHANGED <<index, subdomain, totalPagination, pageNumber, hrefs, full_list,
                   mainHrefs, idx, response, name, emails, linkFile, contactFile, log,
                   rowSrc, raised, cfemail, result, trace>>

FlSleep ==
    /\ pc = "fl_sleep"
    /\ trace' = Append(trace, Sleep(2))
    /\ pc' = "fl_fetch"
    /\ UNCHANGED <<index, subdomain, totalPagination, pageNumber, hrefs, full_list,
                   mainHrefs, idx, response, name, emails, linkFile, contactFile, log,
                   rowSrc, raised, cfemail, result>>

FlFetch ==
    /\ pc = "fl_fetch"
    /\ \E ok \in BOOLEAN, doc \in ListingDocs :
          /\ Len(full_list) + Len(GetList(ok, doc)) <= MaxLinks
          /\ hrefs' = GetList(ok, doc)
          /\ trace' = Append(trace, Fetch("page", pageNumber, SubUrl(pageNumber), ok,
                                       IF ok THEN doc ELSE <<>>))
          /\ log' = log \o GetListLog(ok)
    /\ pc' = "fl_extend"
    /\ UNCHANGED <<index, subdomain, totalPagination, pageNumber, full_list, mainHrefs,
                   idx, response, name, emails, linkFile, contactFile, rowSrc,
                   raised, cfemail, result>>

\* faulty variant: the page's links go in front of the running list
FlExtendPrepend ==
    /\ pc = "fl_extend"
    /\ full_list' = hrefs \o full_list
    /\ pc' = "fl_append"
    /\ UNCHANGED <<index, subdomain, totalPagination, pageNumber, hrefs, mainHrefs, idx,
                   response, name, emails, linkFile, contactFile, trace, log, rowSrc,
                   raised, cfemail, result>>

FlExtend ==
    /\ pc = "fl_extend"
    /\ full_list' = full_list \o hrefs
    /\ pc' = "fl_append"
    /\ UNCHANGED <<index, subdomain, totalPagination, pageNumber, hrefs, mainHrefs, idx,
                   response, name, emails, linkFile, contactFile, trace, log, rowSrc,
                   raised, cfemail, result>>

\* faulty variant: the page's rows are written with mode 'w' instead of 'a'
FlAppendOverwrite ==
    /\ pc = "fl_append"
    /\ linkFile' = [exists |-> TRUE, header |-> <<>>, rows |-> hrefs]
    /\ IF pageNumber < totalPagination
       THEN pageNumber' = pageNumber + 1 /\ pc' = "fl_sleep"
       ELSE pageNumber' = pageNumber /\ pc' = "fl_return"
    /\ UNCHANGED <<index, subdomain, totalPagination, hrefs, full_list, mainHrefs, idx,
                   response, name, emails, contactFile, trace, log, rowSrc,
                   raised, cfemail, result>>

FlAppend ==
    /\ pc = "fl_append"
    /\ linkFile' = AppendCsv(linkFile, hrefs)
    /\ IF pageNumber < totalPagination
       THEN pageNumber' = pageNumber + 1 /\ pc' = "fl_sleep"
       ELSE pageNumber' = pageNumber /\ pc' = "fl_return"
    /\ UNCHANGED <<index, subdomain, totalPagination, hrefs, full_list, mainHrefs, idx,
                   response, name, emails, contactFile, trace, log, rowSrc,
                   raised, cfemail, result>>

FlReturn ==
    /\ pc = "fl_return"
    /\ log' = Append(log, Info("Total hrefs fetched"))
    /\ mainHrefs' = full_list
    /\ pc' = "check"
    /\ UNCHANGED <<index, subdomain, totalPagination, pageNumber, hrefs, full_list, idx,
                   response, name, emails, linkFile, contactFile, trace, rowSrc,
                   raised, cfemail, result>>

-----------------------------------------------------------------------------
(* main() after get_fullList: the detail loop *)

\* faulty variant: the empty list is reported but main does not return
CheckHrefsNoReturn ==
    /\ pc = "check"
    /\ IF mainHrefs = <<>>
       THEN log' = Append(log, Error("No hrefs found to process."))
       ELSE log' = Append(log, Info("Total hrefs found"))
    /\ pc' = "create_out"
    /\ UNCHANGED <<index, subdomain, totalPagination, pageNumber, hrefs, full_list,
                   mainHrefs, idx, response, name, emails, linkFile, contactFile,
                   trace, rowSrc, raised, cfemail, result>>

CheckHrefs ==
    /\ pc = "check"
    /\ IF mainHrefs = <<>>
       THEN /\ log' = Append(log, Error("No hrefs found to process."))
            /\ pc' = "done"
       ELSE /\ log' = Append(log, Info("Total hrefs found"))
            /\ pc' = "create_out"
    /\ UNCHANGED <<index, subdomain, totalPagination, pageNumber, hrefs, full_list,
                   mainHrefs, idx, response, name, emails, linkFile, contactFile,
                   trace, rowSrc, raised, cfemail, result>>

CreateOutput ==
    /\ pc = "create_out"
    /\ contactFile' = CreateCsv(<<"name", "email">>)
    /\ idx' = 1
    /\ pc' = "hv_fetch"
    /\ UNCHANGED <<index, subdomain, totalPagination, pageNumber, hrefs, full_list,
                   mainHrefs, response, name, emails, linkFile, trace, log, rowSrc,
                   raised, cfemail, result>>

HvFetch ==
    /\ pc = "hv_fetch"
    /\ idx <= Len(mainHrefs)
    /\ \E ok \in BOOLEAN, doc \in DetailDocs :
          /\ trace' = Append(trace, Fetch("detail", idx, BaseUrl \o mainHrefs[idx], ok,
                                       IF ok THEN doc ELSE NoDoc))
          /\ IF ok
             THEN /\ response' = doc
                  /\ pc' = "hv_extract"
                  /\ UNCHANGED <<idx, log>>
             ELSE /\ log' = Append(log, Error("Request failed"))
                  /\ idx' = idx + 1
                  /\ pc' = "hv_fetch"
                  /\ UNCHANGED response
    /\ UNCHANGED <<index, subdomain, totalPagination, pageNumber, hrefs, full_list,
                   mainHrefs, name, emails, linkFile, contactFile, rowSrc, raised,
                   cfemail, result>>

HvExtract ==
    /\ pc = "hv_extract"
    /\ name' = GetName(response)
    /\ LET r == GetEmail(response)
       IN  IF r.ok
           THEN emails' = r.val /\ pc' = "hv_save" /\ UNCHANGED raised
           ELSE raised' = r.err /\ pc' = "crashed" /\ UNCHANGED emails
    /\ UNCHANGED <<index, subdomain, totalPagination, pageNumber, hrefs, full_list,
                   mainHrefs, idx, response, linkFile, contactFile, trace, log,
                   rowSrc, cfemail, result>>

\* faulty variant: the emails of a page are written last first
RowsForReversed(n, es) ==
    IF es = <<>> THEN <<[name |-> n, email |-> <<>>]>>
    ELSE [j \in 1..Len(es) |-> [name |-> n, email |-> es[Len(es) + 1 - j]]]

\* the rows the if/else of the loop body writes, in writing order
RowsFor(n, es) ==
    IF es = <<>> THEN <<[name |-> n, email |-> <<>>]>>
    ELSE [j \in 1..Len(es) |-> [name |-> n, email |-> es[j]]]

HvSave ==
    /\ pc = "hv_save"
    /\ contactFile' = AppendCsv(contactFile, RowsFor(name, emails))
    /\ rowSrc' = rowSrc \o [j \in 1..Len(RowsFor(name, emails)) |-> [link |-> idx, k |-> j]]
    /\ pc' = "hv_sleep"
    /\ UNCHANGED <<index, subdomain, totalPagination, pageNumber, hrefs, full_list,
                   mainHrefs, idx, response, name, emails, linkFile, trace, log,
                   raised, cfemail, result>>

HvSleep ==
    /\ pc = "hv_sleep"
    /\ trace' = Append(trace, Sleep(1))
    /\ idx' = idx + 1
    /\ pc' = "hv_fetch"
    /\ UNCHANGED <<index, subdomain, totalPagination, pageNumber, hrefs, full_list,
                   mainHrefs, response, name, emails, linkFile, contactFile, log,
                   rowSrc, raised, cfemail, result>>

HvDone ==
    /\ pc = "hv_fetch"
    /\ idx > Len(mainHrefs)
    /\ log' = Append(log, Info("Data saved"))
    /\ pc' = "done"
    /\ UNCHANGED <<index, subdomain, totalPagination, pageNumber, hrefs, full_list,
                   mainHrefs, idx, response, name, emails, linkFile, contactFile,
                   trace, rowSrc, raised, cfemail, result>>

Next ==
    \/ MainArgs
    \/ GetTotalPagination
    \/ FlCreate
    \/ FlSingleFetch
    \/ FlSingleExtend
    \/ FlSingleAppend
    \/ FlSleep
    \/ FlFetch
    \/ FlExtend
    \/ FlAppend
    \/ FlReturn
    \/ CheckHrefs
    \/ CreateOutput
    \/ HvFetch
    \/ HvExtract
    \/ HvSave
    \/ HvSleep
    \/ HvDone

Spec == Init /\ [][Next]_vars

-----------------------------------------------------------------------------
(* decode_cfemail on its own: every token over TokenChars up to MaxTokenLen *)

InitDecode ==
    /\ pc = "decode"
    /\ cfemail \in SeqsUpTo(TokenChars, MaxTokenLen)
    /\ result = Returned(<<>>)
    /\ index = 0
    /\ subdomain = NoSubdomain
    /\ totalPagination = 0
    /\ pageNumber = 0
    /\ hrefs = <<>>
    /\ full_list = <<>>
    /\ mainHrefs = <<>>
    /\ idx = 0
    /\ response = NoDoc
    /\ name = ""
    /\ emails = <<>>
    /\ linkFile = NoFile
    /\ contactFile = NoFile
    /\ trace = <<>>
    /\ log = <<>>
    /\ rowSrc = <<>>
    /\ raised = ""

DecodeCall ==
    /\ pc = "decode"
    /\ result' = DecodeCfemail(cfemail)
    /\ pc' = "decoded"
    /\ UNCHANGED <<index, subdomain, totalPagination, pageNumber, hrefs, full_list,
                   mainHrefs, idx, response, name, emails, linkFile, contactFile,
                   trace, log, rowSrc, raised, cfemail>>

NextDecode == DecodeCall

SpecDecode == InitDecode /\ [][NextDecode]_vars

-----------------------------------------------------------------------------
(* Vocabulary of the properties *)

IsPrefix(s, t) == Len(s) <= Len(t) /\ SubSeq(t, 1, Len(s)) = s

PagePos == {i \in 1..Len(trace) : trace[i].op = "fetch" /\ trace[i].kind = "page"}
DetailPos == {i \in 1..Len(trace) : trace[i].op = "fetch" /\ trace[i].kind = "detail"}
PageFetches == SelectSeq(trace, LAMBDA e : e.op = "fetch" /\ e.kind = "page")
DetailFetches == SelectSeq(trace, LAMBDA e : e.op = "fetch" /\ e.kind = "detail")

\* the link targets of a listing page, in document order
AnchorTargets(doc) ==
    LET kept == SelectSeq(doc, LAMBDA a : a.has /\ a.href # "")
    IN  [i \in 1..Len(kept) |-> kept[i].href]

RECURSIVE LinksOfPages(_)
LinksOfPages(evs) ==
    IF evs = <<>> THEN <<>>
    ELSE (IF Head(evs).ok THEN AnchorTargets(Head(evs).doc) ELSE <<>>)
         \o LinksOfPages(Tail(evs))

\* control is inside get_fullList
InGetFullList ==
    pc \in {"fl_create", "fl_single", "fl_single_extend", "fl_single_append",
            "fl_sleep", "fl_fetch", "fl_extend", "fl_append", "fl_return"}

\* get_fullList has returned to main
CollectReturned ==
    \/ pc \in {"check", "create_out", "hv_fetch", "hv_extract", "hv_save", "hv_sleep"}
    \/ pc = "done" /\ subdomain # NoSubdomain
    \/ pc = "crashed" /\ raised = "ValueError"

\* the request made for link i of the detail loop
DetailEvent(i) == trace[CHOOSE p \in DetailPos : trace[p].n = i]
Fetched(i) == \E p \in DetailPos : trace[p].n = i
\* the loop body for link i has run to its end (or died)
Processed(i) ==
    Fetched(i) /\ (i < idx \/ (i = idx /\ pc \in {"hv_sleep", "crashed"}))
RowsOfLink(i) == {r \in 1..Len(rowSrc) : rowSrc[r].link = i}

\* C1: for total_pages N > 0 get_fullList returns the links of the pages whose
\* fetch succeeded, concatenated in page order 1..N and document order; a failed
\* page adds nothing and the later pages are still fetched.
C1_FullListIsConcatOfFetchedPages ==
    /\ InGetFullList => (raised = "" /\ ENABLED Next)
    /\ (CollectReturned /\ totalPagination > 0) =>
           /\ Len(PageFetches) = totalPagination
           /\ \A i \in 1..Len(PageFetches) : PageFetches[i].n = i
           /\ mainHrefs = LinksOfPages(PageFetches)

C1_Witness ==
    /\ pc = "check"
    /\ totalPagination = 3
    /\ PageFetches[1].ok /\ ~PageFetches[2].ok /\ PageFetches[3].ok
    /\ mainHrefs = <<"/a", "/b">>

\* C2: every visited detail page yields exactly one row per email element
\* (one row with an empty email when it has none), all with the page's name,
\* whatever the tokens of the elements are.
C2_RowPerEmailElement ==
    \A i \in 1..Len(mainHrefs) :
        (Processed(i) /\ DetailEvent(i).ok) =>
            LET doc == DetailEvent(i).doc
                k == Len(doc.elems)
            IN  /\ Cardinality(RowsOfLink(i)) = (IF k = 0 THEN 1 ELSE k)
                /\ \A r \in RowsOfLink(i) : contactFile.rows[r].name = GetName(doc)

\* what get_email makes of each page the site can answer with
ExtractedFrom == [d \in DetailDocs |-> GetEmail(d)]

\* C3: a link whose fetch fails emits no row and the loop goes on; the contact
\* rows are grouped in link order and, within a link, in extraction order.
C3_RowsInLinkAndExtractionOrder ==
    idx >= 1 =>
        LET de == DetailFetches
            n == Len(rowSrc)
        IN  /\ \A i \in 1..Len(de) : de[i].n = i
            /\ Len(contactFile.rows) = n
            /\ \A r \in 1..n :
                  LET i == rowSrc[r].link
                  IN  /\ i <= Len(de)
                      /\ de[i].ok
                      /\ LET es == ExtractedFrom[de[i].doc].val
                         IN  contactFile.rows[r].email =
                                (IF es = <<>> THEN <<>> ELSE es[rowSrc[r].k])
            /\ \A r \in 1..(n - 1) :
                  \/ rowSrc[r].link < rowSrc[r + 1].link
                  \/ /\ rowSrc[r].link = rowSrc[r + 1].link
                     /\ rowSrc[r].k < rowSrc[r + 1].k
            /\ \A i \in 1..Len(de) :
                  ~de[i].ok => \A r \in 1..n : rowSrc[r].link # i
            /\ (pc = "done" => Len(de) = Len(mainHrefs))

C3_Witness ==
    /\ pc = "done"
    /\ Len(mainHrefs) = 2
    /\ ~DetailEvent(1).ok
    /\ DetailEvent(2).ok
    /\ Len(contactFile.rows) = 2
    /\ contactFile.rows[1].email # contactFile.rows[2].email

\* the link file holds its header and exactly the running list
C4_InStep ==
    (pc \in {"fl_single", "fl_sleep", "fl_fetch", "fl_return"} \/ CollectReturned) =>
        /\ linkFile.exists
        /\ linkFile.header = <<"href">>
        /\ linkFile.rows = full_list

\* a step never rewrites or removes what the link file holds
C4_Appends ==
    (linkFile.exists /\ pc # "fl_create") =>
        /\ linkFile'.exists
        /\ linkFile'.header = linkFile.header
        /\ IsPrefix(linkFile.rows, linkFile'.rows)

C5_NoLinksNoHarvest ==
    (CollectReturned /\ pc # "check" /\ mainHrefs = <<>>) =>
        /\ pc = "done"
        /\ raised = ""
        /\ DetailPos = {}
        /\ contactFile \in {NoFile, StaleContacts}
        /\ log[Len(log)] = Error("No hrefs found to process.")

C5_Witness ==
    /\ pc = "done"
    /\ subdomain # NoSubdomain
    /\ mainHrefs = <<>>
    /\ contactFile = StaleContacts

\* a token the decoder is meant for: hexadecimal byte pairs, at least one
WellFormed(tok) ==
    /\ Len(tok) >= 2
    /\ (Len(tok) % 2) = 0
    /\ \A i \in 1..Len(tok) : IsHexDigit(tok[i])

RECURSIVE DecodedWellFormed(_)
DecodedWellFormed(elems) ==
    IF elems = <<>> THEN <<>>
    ELSE (IF Head(elems).has /\ WellFormed(Head(elems).cfemail)
          THEN <<DecodeCfemail(Head(elems).cfemail).val>>
          ELSE <<>>) \o DecodedWellFormed(Tail(elems))

\* C6: a malformed token is skipped for its element only: get_email returns the
\* decoded emails of the well-formed elements, in order, and the run goes on.
C6_MalformedTokenSkipped ==
    /\ ~(pc = "crashed" /\ raised = "ValueError")
    /\ pc = "hv_save" => emails = DecodedWellFormed(response.elems)

\* C7: decode_cfemail fails on every token of odd length or with a character
\* that is no hexadecimal digit.
C7_DecodeRejectsMalformed ==
    (pc = "decoded" /\ ((Len(cfemail) % 2) = 1
                         \/ \E i \in 1..Len(cfemail) : ~IsHexDigit(cfemail[i])))
        => ~result.ok

ByteAt(tok, i) == 16 * HexVal(tok[2 * i - 1]) + HexVal(tok[2 * i])
Bit(n, k) == (n \div (2 ^ k)) % 2
\* exclusive or of two bytes, bit by bit
ByteXor(a, b) ==
    LET bit(k) == IF Bit(a, k) = Bit(b, k) THEN 0 ELSE 2 ^ k
    IN  bit(0) + bit(1) + bit(2) + bit(3) + bit(4) + bit(5) + bit(6) + bit(7)
\* the bytes of the token that hides plaintext `codes` under `key`
Reencode(key, codes) == <<key>> \o [i \in 1..Len(codes) |-> ByteXor(codes[i], key)]

\* C8: for a token of n >= 1 hexadecimal byte pairs b0..b(n-1) decode_cfemail
\* returns the n-1 characters chr(b(i) XOR b0) in order, and re-encoding the
\* plaintext with key b0 gives back the bytes of the token.
C8_DecodeIsXorWithFirstByte ==
    (pc = "decoded" /\ WellFormed(cfemail)) =>
        LET n == Len(cfemail) \div 2
        IN  /\ result.ok
            /\ Len(result.val) = n - 1
            /\ \A i \in 1..(n - 1) :
                  result.val[i] = ByteXor(ByteAt(cfemail, i + 1), ByteAt(cfemail, 1))
            /\ Reencode(ByteAt(cfemail, 1), result.val)
                  = [i \in 1..n |-> ByteAt(cfemail, i)]

C8_Witness ==
    /\ pc = "decoded"
    /\ cfemail = <<"6", "e", "A", "6", "e", "e">>
    /\ result = Returned(<<200, 128>>)

\* C9: every detail-page fetch is immediately preceded by a 1-unit sleep.
C9_SleepBeforeEveryDetailFetch ==
    \A p \in DetailPos :
        p > 1 /\ trace[p - 1].op = "sleep" /\ trace[p - 1].n = 1

\* C10: for N > 0 get_fullList fetches pages 1..N in increasing order, each once
\* and each right after a 2-unit sleep; for N = 0 it makes exactly one fetch, of
\* the URL with &page=1 appended, and no sleep comes before it.
C10_PageFetchSchedule ==
    IF totalPagination > 0
    THEN /\ \A p \in PagePos :
               /\ p > 1
               /\ trace[p - 1].op = "sleep" /\ trace[p - 1].n = 2
               /\ trace[p].n = Cardinality({q \in PagePos : q <= p})
               /\ trace[p].url = Url \o "&page=" \o ToString(trace[p].n)
         /\ Cardinality(PagePos) <= totalPagination
         /\ CollectReturned => Cardinality(PagePos) = totalPagination
    ELSE /\ \A p \in PagePos :
               /\ trace[p].n = 1
               /\ trace[p].url = BaseUrl \o subdomain.path \o "&page=1"
               /\ \A q \in 1..(p - 1) : trace[q].op # "sleep"
         /\ Cardinality(PagePos) <= 1
         /\ CollectReturned => Cardinality(PagePos) = 1

C10_Witness ==
    /\ pc = "check"
    /\ totalPagination = 3
    /\ ~PageFetches[2].ok
    /\ Cardinality(PagePos) = 3

====
